---- MODULE Spec2Model ----
(***************************************************************************)
(* SnapPwd service: a one-time-retrieval blob store over Redis.            *)
(*                                                                         *)
(* The model covers the four HTTP handlers of src/src/handlers.rs, the     *)
(* store functions of src/src/db.rs they call, the serde (de)serialization *)
(* of the records of src/src/models.rs, and the Redis commands the store   *)
(* issues (SET EX, GETDEL, GET, TTL) together with Redis' key expiry.      *)
(*                                                                         *)
(* A Rust String is a sequence of one-character strings.  JSON text is     *)
(* such a sequence too, in which a structural character, a field name and  *)
(* the literal null are one element each.                                  *)
(***************************************************************************)
EXTENDS Integers, Sequences, FiniteSets, Bags, TLC

(***************************************************************************)
(* Bounds of the model.                                                    *)
(***************************************************************************)
\* Number of events in one behaviour: the HTTP requests received and the
\* advances of the clock.  As many requests can be in flight at a time.
MaxEvents == 3
\* Wall-clock time (seconds since the epoch) at which the behaviour starts.
StartTime == 1000
\* Number of requests in one behaviour in which the clock runs freely.
MaxLiveEvents == 2

(***************************************************************************)
(* Program constants.                                                      *)
(***************************************************************************)
MIN_EXPIRATION_SECONDS == 60
MAX_EXPIRATION_SECONDS == 2592000

(***************************************************************************)
(* serde_json: values, serialization and parsing.                          *)
(***************************************************************************)
\* serde_json::Value, and Option<Value> (JNone is Option::None).
JNone == [t |-> "none", s |-> <<>>, n |-> 0, o |-> <<>>]
JNull == [t |-> "null", s |-> <<>>, n |-> 0, o |-> <<>>]
JStr(s) == [t |-> "str", s |-> s, n |-> 0, o |-> <<>>]
JNum(n) == [t |-> "num", s |-> <<>>, n |-> n, o |-> <<>>]
\* members: a sequence of [k |-> String, v |-> Value], in document order.
JObj(members) == [t |-> "obj", s |-> <<>>, n |-> 0, o |-> members]
Member(k, v) == [k |-> k, v |-> v]

Digit == <<"0", "1", "2", "3", "4", "5", "6", "7", "8", "9">>
DigitChars == {Digit[i] : i \in 1..10}
DigitValue(c) == (CHOOSE i \in 1..10 : Digit[i] = c) - 1

\* Decimal text of a non-negative integer (itoa).
RECURSIVE DigitsOf(_)
DigitsOf(n) ==
    IF n < 10 THEN <<Digit[n + 1]>>
    ELSE DigitsOf(n \div 10) \o <<Digit[(n % 10) + 1]>>

\* JSON string escaping of the two characters the payloads can hold that
\* need it: the quote and the backslash.
RECURSIVE Escape(_)
Escape(s) ==
    IF s = <<>> THEN <<>>
    ELSE IF Head(s) \in {"\"", "\\"} THEN <<"\\", Head(s)>> \o Escape(Tail(s))
    ELSE <<Head(s)>> \o Escape(Tail(s))

Quote(s) == <<"\"">> \o Escape(s) \o <<"\"">>

\* serde_json::to_string of a Value; Option::None serializes as null.
RECURSIVE ToJson(_)
RECURSIVE MembersToJson(_)
MembersToJson(ms) ==
    IF ms = <<>> THEN <<>>
    ELSE Quote(Head(ms).k) \o <<":">> \o ToJson(Head(ms).v)
         \o (IF Tail(ms) = <<>> THEN <<>> ELSE <<",">> \o MembersToJson(Tail(ms)))
ToJson(v) ==
    CASE v.t = "none" -> <<"null">>
      [] v.t = "null" -> <<"null">>
      [] v.t = "str"  -> Quote(v.s)
      [] v.t = "num"  -> DigitsOf(v.n)
      [] v.t = "obj"  -> <<"{">> \o MembersToJson(v.o) \o <<"}">>

\* Parsing.  Every parser takes the text and a position and returns
\* [ok, v, next]: whether it succeeded, the value, the position after it.
ParseFail == [ok |-> FALSE, v |-> JNull, next |-> 0]
ParseOk(v, next) == [ok |-> TRUE, v |-> v, next |-> next]

\* The characters of a string literal whose opening quote is before position i.
RECURSIVE ParseChars(_, _, _)
ParseChars(text, i, acc) ==
    IF i > Len(text) THEN ParseFail
    ELSE IF text[i] = "\"" THEN ParseOk(JStr(acc), i + 1)
    ELSE IF text[i] = "\\"
         THEN IF i + 1 <= Len(text) /\ text[i + 1] \in {"\"", "\\"}
              THEN ParseChars(text, i + 2, Append(acc, text[i + 1]))
              ELSE ParseFail
    ELSE ParseChars(text, i + 1, Append(acc, text[i]))

\* The digits of a number that starts at position i.
RECURSIVE ParseDigits(_, _, _)
ParseDigits(text, i, acc) ==
    IF i <= Len(text) /\ text[i] \in DigitChars
    THEN ParseDigits(text, i + 1, acc * 10 + DigitValue(text[i]))
    ELSE ParseOk(JNum(acc), i)

RECURSIVE ParseValue(_, _)
RECURSIVE ParseMembers(_, _, _)
\* The members of an object, the first of which starts at position i.
ParseMembers(text, i, acc) ==
    IF i > Len(text) \/ text[i] # "\"" THEN ParseFail
    ELSE LET key == ParseChars(text, i + 1, <<>>) IN
         IF ~key.ok \/ key.next > Len(text) \/ text[key.next] # ":" THEN ParseFail
         ELSE LET val == ParseValue(text, key.next + 1) IN
              IF ~val.ok \/ val.next > Len(text) THEN ParseFail
              ELSE LET all == Append(acc, Member(key.v.s, val.v)) IN
                   IF text[val.next] = "}" THEN ParseOk(JObj(all), val.next + 1)
                   ELSE IF text[val.next] = ","
                        THEN ParseMembers(text, val.next + 1, all)
                        ELSE ParseFail
ParseValue(text, i) ==
    IF i > Len(text) THEN ParseFail
    ELSE IF text[i] = "null" THEN ParseOk(JNull, i + 1)
    ELSE IF text[i] = "\"" THEN ParseChars(text, i + 1, <<>>)
    ELSE IF text[i] \in DigitChars
         THEN IF text[i] = "0" /\ i + 1 <= Len(text) /\ text[i + 1] \in DigitChars
              THEN ParseFail
              ELSE ParseDigits(text, i, 0)
    ELSE IF text[i] = "{"
         THEN IF i + 1 <= Len(text) /\ text[i + 1] = "}"
              THEN ParseOk(JObj(<<>>), i + 2)
              ELSE ParseMembers(text, i + 1, <<>>)
    ELSE ParseFail

\* serde_json::from_str: one value and nothing after it.
FromStr(text) ==
    LET p == ParseValue(text, 1) IN
    IF p.ok /\ p.next = Len(text) + 1 THEN p ELSE ParseFail

(***************************************************************************)
(* serde derive: the structs of models.rs read from and written to JSON.   *)
(* A derived Deserialize ignores unknown fields, rejects a duplicate of a  *)
(* known field and a missing field that has no default.                    *)
(***************************************************************************)
Occurrences(obj, k) == {i \in 1..Len(obj.o) : obj.o[i].k = k}
Field(obj, k) == obj.o[CHOOSE i \in Occurrences(obj, k) : TRUE].v
\* A required field of the given JSON type, present exactly once.
Required(obj, k, type) ==
    /\ Cardinality(Occurrences(obj, k)) = 1
    /\ Field(obj, k).t = type
\* A #[serde(default)] field: absent, or present once with the given types.
Defaulted(obj, k, types) ==
    \/ Occurrences(obj, k) = {}
    \/ /\ Cardinality(Occurrences(obj, k)) = 1
       /\ Field(obj, k).t \in types
ValueTypes == {"null", "str", "num", "obj"}
\* Option<serde_json::Value> read from a field: absent and null are None.
OptionField(obj, k) ==
    IF Occurrences(obj, k) = {} \/ Field(obj, k).t = "null" THEN JNone
    ELSE Field(obj, k)

\* FileMetadata, and its absence in the records that carry none.
NoFileMetadata == [original_filename |-> <<>>, content_type |-> <<>>, iv |-> <<>>]
FileMetadataToValue(m) ==
    JObj(<<Member(<<"originalFilename">>, JStr(m.original_filename)),
           Member(<<"contentType">>, JStr(m.content_type)),
           Member(<<"iv">>, JStr(m.iv))>>)
IsFileMetadata(v) ==
    /\ v.t = "obj"
    /\ Required(v, <<"originalFilename">>, "str")
    /\ Required(v, <<"contentType">>, "str")
    /\ Required(v, <<"iv">>, "str")
FileMetadataOf(v) ==
    [original_filename |-> Field(v, <<"originalFilename">>).s,
     content_type |-> Field(v, <<"contentType">>).s,
     iv |-> Field(v, <<"iv">>).s]

\* StoredSecret
StoredSecret(secret, created, metadata) ==
    [ok |-> TRUE, encrypted_secret |-> secret, created_at |-> created,
     metadata |-> metadata]
NoStoredSecret ==
    [ok |-> FALSE, encrypted_secret |-> <<>>, created_at |-> 0, metadata |-> JNone]
StoredSecretToJson(st) ==
    ToJson(JObj(<<Member(<<"encryptedSecret">>, JStr(st.encrypted_secret)),
                  Member(<<"createdAt">>, JNum(st.created_at)),
                  Member(<<"metadata">>, st.metadata)>>))
StoredSecretFromStr(text) ==
    LET p == FromStr(text) IN
    IF /\ p.ok
       /\ p.v.t = "obj"
       /\ Required(p.v, <<"encryptedSecret">>, "str")
       /\ Required(p.v, <<"createdAt">>, "num")
       /\ Defaulted(p.v, <<"metadata">>, ValueTypes)
    THEN StoredSecret(Field(p.v, <<"encryptedSecret">>).s,
                      Field(p.v, <<"createdAt">>).n,
                      OptionField(p.v, <<"metadata">>))
    ELSE NoStoredSecret

\* StoredFile
StoredFile(metadata, data, created) ==
    [ok |-> TRUE, metadata |-> metadata, encrypted_data |-> data,
     created_at |-> created]
NoStoredFile ==
    [ok |-> FALSE, metadata |-> NoFileMetadata, encrypted_data |-> <<>>,
     created_at |-> 0]
StoredFileFromStr(text) ==
    LET p == FromStr(text) IN
    IF /\ p.ok
       /\ p.v.t = "obj"
       /\ Cardinality(Occurrences(p.v, <<"metadata">>)) = 1
       /\ IsFileMetadata(Field(p.v, <<"metadata">>))
       /\ Required(p.v, <<"encryptedData">>, "str")
       /\ Defaulted(p.v, <<"createdAt">>, {"num"})
    THEN StoredFile(FileMetadataOf(Field(p.v, <<"metadata">>)),
                    Field(p.v, <<"encryptedData">>).s,
                    IF Occurrences(p.v, <<"createdAt">>) = {} THEN 0
                    ELSE Field(p.v, <<"createdAt">>).n)
    ELSE NoStoredFile

\* SecretRequest, the body of POST /v1/secrets
NoSecretRequest ==
    [ok |-> FALSE, encrypted_secret |-> <<>>, expiration |-> 0, metadata |-> JNone]
SecretRequestFromStr(text) ==
    LET p == FromStr(text) IN
    IF /\ p.ok
       /\ p.v.t = "obj"
       /\ Required(p.v, <<"encryptedSecret">>, "str")
       /\ Required(p.v, <<"expiration">>, "num")
       /\ Defaulted(p.v, <<"metadata">>, ValueTypes)
    THEN [ok |-> TRUE,
          encrypted_secret |-> Field(p.v, <<"encryptedSecret">>).s,
          expiration |-> Field(p.v, <<"expiration">>).n,
          metadata |-> OptionField(p.v, <<"metadata">>)]
    ELSE NoSecretRequest

\* FileRequest, the body of POST /v1/files
NoFileRequest ==
    [ok |-> FALSE, metadata |-> NoFileMetadata, encrypted_data |-> <<>>,
     expiration |-> 0]
FileRequestFromStr(text) ==
    LET p == FromStr(text) IN
    IF /\ p.ok
       /\ p.v.t = "obj"
       /\ Cardinality(Occurrences(p.v, <<"metadata">>)) = 1
       /\ IsFileMetadata(Field(p.v, <<"metadata">>))
       /\ Required(p.v, <<"encryptedData">>, "str")
       /\ Required(p.v, <<"expiration">>, "num")
    THEN [ok |-> TRUE,
          metadata |-> FileMetadataOf(Field(p.v, <<"metadata">>)),
          encrypted_data |-> Field(p.v, <<"encryptedData">>).s,
          expiration |-> Field(p.v, <<"expiration">>).n]
    ELSE NoFileRequest

\* A faulty GetSecretParams: peek defaults to true.
GetSecretParamsPeekUnlessFalse(query) == [peek |-> (query # "peek=false")]
\* GetSecretParams, the query of GET /v1/secrets/:id; peek defaults to false.
GetSecretParams(query) == [peek |-> (query = "peek=true")]

(***************************************************************************)
(* Identifiers.                                                            *)
(***************************************************************************)
SecretPrefix == <<"s", "p", "s", "-">>
FilePrefix == <<"s", "p", "f", "-">>
LegacyPrefix == <<"s", "p", "-">>
\* A prefix no retrieval path accepts.
ForeignPrefix == <<"x", "-">>

\* str::starts_with
StartsWith(s, prefix) ==
    /\ Len(s) >= Len(prefix)
    /\ SubSeq(s, 1, Len(prefix)) = prefix

\* The token of a record that predates the behaviour, and the tokens the
\* UUID generator draws from.
LegacyToken == DigitsOf(0)
Tokens == {DigitsOf(n) : n \in 1..MaxEvents}

\* The keys the backend can hold.
LegacyIds == {prefix \o LegacyToken : prefix \in {LegacyPrefix, FilePrefix}}
IssuableIds == {prefix \o tok : prefix \in {SecretPrefix, FilePrefix}, tok \in Tokens}
KeyIds == LegacyIds \cup IssuableIds

(***************************************************************************)
(* Inputs: request bodies, query strings, records that predate the run.    *)
(***************************************************************************)
ExampleFileMetadata == [original_filename |-> <<"f">>, content_type |-> <<"t">>, iv |-> <<"i">>]
ExampleMetadata == JObj(<<Member(<<"label">>, JStr(<<"x">>))>>)

SecretBody(secret, expiration, extra) ==
    ToJson(JObj(<<Member(<<"encryptedSecret">>, JStr(secret)),
                  Member(<<"expiration">>, JNum(expiration))>> \o extra))
SecretBodies ==
    { SecretBody(<<"a", "\"">>, MAX_EXPIRATION_SECONDS,
                 <<Member(<<"metadata">>, ExampleMetadata),
                   Member(<<"createdAt">>, JNum(7))>>),
      SecretBody(<<"b">>, MIN_EXPIRATION_SECONDS, <<Member(<<"metadata">>, JNull)>>),
      SecretBody(<<"b">>, MIN_EXPIRATION_SECONDS - 1, <<>>),
      SecretBody(<<"b">>, MAX_EXPIRATION_SECONDS + 1, <<>>) }

FileBody(data, expiration) ==
    ToJson(JObj(<<Member(<<"metadata">>, FileMetadataToValue(ExampleFileMetadata)),
                  Member(<<"encryptedData">>, JStr(data)),
                  Member(<<"expiration">>, JNum(expiration))>>))
FileBodies ==
    { FileBody(<<"a", "b", "c", "d">>, MIN_EXPIRATION_SECONDS),
      FileBody(<<"a", "a", "a", "a", "a">>, MIN_EXPIRATION_SECONDS),
      FileBody(<<"a", "a", "a", "a", "a">>, MAX_EXPIRATION_SECONDS + 1) }

\* The requests as axum's Json extractor hands them to the handlers.
SecretRequests == {SecretRequestFromStr(body) : body \in SecretBodies}
FileRequests == {FileRequestFromStr(body) : body \in FileBodies}

Queries == {"", "peek=true", "peek=false"}

\* The seconds by which the clock advances in one step.
TickSeconds == MIN_EXPIRATION_SECONDS

\* A bare ciphertext written by an older release.
LegacyPlain == <<"l", "g">>

(***************************************************************************)
(* The Redis backend: a key is absent, or holds a value and a deadline.    *)
(***************************************************************************)
NoExpiry == -1
Absent == [present |-> FALSE, value |-> <<>>, expireAt |-> 0]
Entry(value, expireAt) == [present |-> TRUE, value |-> value, expireAt |-> expireAt]

\* A faulty write: SET without EX.
SetWithoutExpiry(s, key, value, seconds, clock) ==
    [s EXCEPT ![key] = Entry(value, NoExpiry)]
\* SET key value EX seconds
SetEx(s, key, value, seconds, clock) ==
    [s EXCEPT ![key] = Entry(value, clock + seconds)]
\* A faulty GETDEL: it returns the value and leaves the key in place.
GetKeep(s, key) == s
\* A faulty GETDEL: it removes every key along with the one it reads.
GetDelAll(s, key) == [k \in DOMAIN s |-> Absent]
\* GETDEL key: the store after it (the reply is the entry before it).
GetDel(s, key) == [s EXCEPT ![key] = Absent]
\* GET key: the store after it.
\* A faulty GET: it clears the deadline of the key it reads.
GetPersist(s, key) ==
    IF s[key].present THEN [s EXCEPT ![key].expireAt = NoExpiry] ELSE s
\* A faulty GET: it removes the key it reads.
GetTake(s, key) == GetDel(s, key)
Get(s, key) == s
\* TTL key
Ttl(s, key, clock) ==
    IF ~s[key].present THEN -2
    ELSE IF s[key].expireAt = NoExpiry THEN -1
    ELSE s[key].expireAt - clock
\* Redis removes a key once its deadline has passed.
Expired(e, clock) == e.present /\ e.expireAt # NoExpiry /\ e.expireAt <= clock
\* A faulty backend: keys outlive their deadline.
ExpireNever(s, clock) == s
Expire(s, clock) == [k \in DOMAIN s |-> IF Expired(s[k], clock) THEN Absent ELSE s[k]]

(***************************************************************************)
(* db.rs: what the store functions compute from the backend's replies.     *)
(***************************************************************************)
\* A faulty generator: it hands out the latest token once more.
repeated_short_id(issued) == DigitsOf(IF issued = 0 THEN 1 ELSE issued)
\* A faulty generator: it hands out the same token again.
reused_short_id(issued) == DigitsOf(1)
\* The random token of a new identifier: a version 4 UUID, taken to differ
\* from every token handed out before.  Tokens are interchangeable, so the
\* n-th token handed out is written n.
generate_short_id(issued) == DigitsOf(issued + 1)

\* A faulty store_secret: it does not stamp the envelope with the clock.
StoreSecretValueUnstamped(secret, metadata, clock) ==
    StoredSecretToJson(StoredSecret(secret, 0, metadata))
\* store_secret: the value written under the new identifier.
StoreSecretValue(secret, metadata, clock) ==
    StoredSecretToJson(StoredSecret(secret, clock, metadata))

\* store_file: the value written under the new identifier.
StoreFileValue(metadata, data) ==
    ToJson(JObj(<<Member(<<"metadata">>, FileMetadataToValue(metadata)),
                  Member(<<"encryptedData">>, JStr(data))>>))

\* A faulty get_secret: it returns the stored value as it is, envelope
\* included.
DbGetSecretRaw(reply) ==
    IF reply.present THEN [err |-> FALSE, some |-> TRUE, secret |-> reply.value]
    ELSE [err |-> FALSE, some |-> FALSE, secret |-> <<>>]

\* The results of the store functions are Result values: Err when the
\* connection or a command fails, Ok otherwise.
StoreOk(id) == [err |-> FALSE, id |-> id]
StoreErr == [err |-> TRUE, id |-> <<>>]
GetSecretErr == [err |-> TRUE, some |-> FALSE, secret |-> <<>>]
PeekSecretErr == [err |-> TRUE, some |-> FALSE, stored |-> NoStoredSecret, ttl |-> 0]
PeekSecretNone == [err |-> FALSE, some |-> FALSE, stored |-> NoStoredSecret, ttl |-> 0]
GetFileErr == [err |-> TRUE, some |-> FALSE, file |-> NoStoredFile]

\* get_secret: Option<String> from the reply of GETDEL.
DbGetSecret(reply) ==
    IF reply.present
    THEN LET stored == StoredSecretFromStr(reply.value) IN
         IF stored.ok
         THEN [err |-> FALSE, some |-> TRUE, secret |-> stored.encrypted_secret]
         ELSE [err |-> FALSE, some |-> TRUE, secret |-> reply.value]
    ELSE [err |-> FALSE, some |-> FALSE, secret |-> <<>>]

\* peek_secret: (StoredSecret, ttl) from the value GET returned and the
\* reply of TTL.
DbPeekSecret(value, ttl) ==
    LET stored == StoredSecretFromStr(value) IN
    IF stored.ok THEN [err |-> FALSE, some |-> TRUE, stored |-> stored, ttl |-> ttl]
    ELSE [err |-> FALSE, some |-> TRUE,
          stored |-> StoredSecret(value, 0, JNone), ttl |-> ttl]

\* get_file: Result<Option<StoredFile>> from the reply of GETDEL.
DbGetFile(reply) ==
    IF reply.present
    THEN LET stored == StoredFileFromStr(reply.value) IN
         IF stored.ok THEN [err |-> FALSE, some |-> TRUE, file |-> stored]
         ELSE GetFileErr
    ELSE [err |-> FALSE, some |-> FALSE, file |-> NoStoredFile]

(***************************************************************************)
(* handlers.rs: the responses.  A response is its status and the fields of *)
(* the body its shape has; the other fields keep their default.            *)
(***************************************************************************)
NoResponse ==
    [status |-> 0, shape |-> "", error |-> "", id |-> <<>>,
     encrypted_secret |-> <<>>, created_at |-> 0, ttl_seconds |-> 0,
     metadata |-> JNone, file_metadata |-> NoFileMetadata, encrypted_data |-> <<>>]
ErrorResponse(status, error) ==
    [NoResponse EXCEPT !.status = status, !.shape = "ErrorResponse", !.error = error]
SecretResponse(id) ==
    [NoResponse EXCEPT !.status = 200, !.shape = "SecretResponse", !.id = id]
FileResponse(id) ==
    [NoResponse EXCEPT !.status = 200, !.shape = "FileResponse", !.id = id]
EncryptedSecretResponse(secret) ==
    [NoResponse EXCEPT !.status = 200, !.shape = "EncryptedSecretResponse",
                       !.encrypted_secret = secret]
SecretPeekResponse(created, ttl, metadata) ==
    [NoResponse EXCEPT !.status = 200, !.shape = "SecretPeekResponse",
                       !.created_at = created, !.ttl_seconds = ttl,
                       !.metadata = metadata]
StoredFileResponse(file) ==
    [NoResponse EXCEPT !.status = 200, !.shape = "StoredFile",
                       !.file_metadata = file.metadata,
                       !.encrypted_data = file.encrypted_data,
                       !.created_at = file.created_at]

InvalidExpiration == ErrorResponse(400, "Invalid expiration time")
InternalServerError == ErrorResponse(500, "Internal server error")
SecretGateNotFound == ErrorResponse(404, "Secret not found")
SecretNotFound == ErrorResponse(404, "Secret not found or already accessed")
FileGateNotFound == ErrorResponse(404, "File not found")
FileNotFound == ErrorResponse(404, "File not found or already accessed")

\* A faulty expiration check: it turns the two ends of the range away.
ValidExpirationExclusive(expiration) ==
    ~(expiration <= MIN_EXPIRATION_SECONDS \/ expiration >= MAX_EXPIRATION_SECONDS)
\* create_secret, create_file: the expiration check.
ValidExpiration(expiration) ==
    ~(expiration < MIN_EXPIRATION_SECONDS \/ expiration > MAX_EXPIRATION_SECONDS)

\* create_secret, create_file: the response to each store result.
CreateSecretResponse(result) ==
    IF result.err THEN InternalServerError ELSE SecretResponse(result.id)
CreateFileResponse(result) ==
    IF result.err THEN InternalServerError ELSE FileResponse(result.id)

\* main: MAX_FILE_SIZE_MB as read from the environment (2 when unset), and
\* the byte limit derived from it.  The deployment modelled sets it to 0,
\* which limits the base64 text of a file to 4 characters.
MaxFileSizeMb == 0
max_file_size_bytes == MaxFileSizeMb * 1024 * 1024
\* A faulty size check: it turns away a text of exactly the limit.
FileTooLargeAtLimit(data) == Len(data) >= (max_file_size_bytes * 4) \div 3 + 4
\* create_file: the size check on the base64 text.
FileTooLarge(data) == Len(data) > (max_file_size_bytes * 4) \div 3 + 4
FileTooLargeResponse == ErrorResponse(400, "File too large")

\* A faulty gate: it turns the bare prefix sp- away.
SecretGateWithoutLegacy(id) ==
    ~(~StartsWith(id, SecretPrefix) /\ ~StartsWith(id, FilePrefix))
\* get_secret: the identifier gate, and the response to each store result.
SecretGate(id) ==
    ~(/\ ~StartsWith(id, LegacyPrefix)
      /\ ~StartsWith(id, SecretPrefix)
      /\ ~StartsWith(id, FilePrefix))
\* A faulty burn response: it answers a failure of the backend as it
\* answers a missing record.
BurnResponseErrAsNone(result) ==
    IF result.some THEN EncryptedSecretResponse(result.secret) ELSE SecretNotFound
BurnResponse(result) ==
    IF result.err THEN InternalServerError
    ELSE IF result.some THEN EncryptedSecretResponse(result.secret)
    ELSE SecretNotFound
\* A faulty peek response: it carries the ciphertext too.
PeekResponseWithSecret(result) ==
    IF result.err THEN InternalServerError
    ELSE IF result.some
    THEN [SecretPeekResponse(result.stored.created_at, result.ttl,
                             result.stored.metadata)
             EXCEPT !.encrypted_secret = result.stored.encrypted_secret]
    ELSE SecretNotFound
PeekResponse(result) ==
    IF result.err THEN InternalServerError
    ELSE IF result.some
    THEN SecretPeekResponse(result.stored.created_at, result.ttl, result.stored.metadata)
    ELSE SecretNotFound

\* get_file: the identifier gate, and the response to each store result.
FileGate(id) == ~(~StartsWith(id, FilePrefix))
FileTakeResponse(result) ==
    IF result.err THEN InternalServerError
    ELSE IF result.some THEN StoredFileResponse(result.file)
    ELSE FileNotFound

(***************************************************************************)
(* State.                                                                  *)
(***************************************************************************)
VARIABLES
    store,      \* the backend: key -> Absent or Entry
    now,        \* the clock, in seconds since the epoch
    pending,    \* the retrieval requests in flight, a bag
    last,       \* the request the latest step answered, with its response
    hist,       \* per key: how its record came to be and what became of it
    nevents     \* requests received and clock advances so far

vars == <<store, now, pending, last, hist, nevents>>

\* A retrieval in flight: where it stands, the identifier it names and the
\* value GET returned (peek).
Request(pc, id) == [pc |-> pc, id |-> id, got |-> <<>>]
Add(bag, r) == bag (+) SetToBag({r})
Remove(bag, r) == bag (-) SetToBag({r})
InFlight == BagToSet(pending)

\* A request and its answer: the operation, the identifier it named or was
\* given, the response, what the identifier's record was when the request
\* issued its first backend command (or was turned away), the number of
\* backend commands the request completed, and whether the backend failed.
Event(op, id, resp, found, calls) ==
    [op |-> op, id |-> id, resp |-> resp, found |-> found, calls |-> calls,
     failed |-> FALSE]
NoEvent == Event("none", <<>>, NoResponse, "", 0)

\* History of a key, kept for the properties only.
NoHistory ==
    [origin |-> "none", payload |-> <<>>, ttl |-> 0, metadata |-> JNone,
     file_metadata |-> NoFileMetadata, at |-> 0,
     takes |-> 0, deliveries |-> 0, expired |-> FALSE, lost |-> FALSE]
\* The history h of a key once a record is written under it.
Written(h, origin, payload, ttl, metadata, file_metadata, at) ==
    [h EXCEPT !.origin = origin, !.payload = payload, !.ttl = ttl,
                      !.metadata = metadata, !.file_metadata = file_metadata,
                      !.at = at]

\* What became of the record of an identifier.
IdStatus(id) ==
    IF id \notin KeyIds THEN "never"
    ELSE IF hist[id].takes > 0 \/ hist[id].lost THEN "consumed"
    ELSE IF hist[id].expired THEN "expired"
    ELSE IF store[id].present THEN "live"
    ELSE "never"

\* The number of identifiers issued so far.
Issued == Cardinality({k \in KeyIds : hist[k].origin \in {"secret", "file"}})

\* The identifiers a retrieval can name: those of the tokens handed out so
\* far and of the next one, under either prefix; the one of the record the
\* run started with; one of a prefix no path accepts.
RequestIds ==
    {prefix \o DigitsOf(n) : prefix \in {SecretPrefix, FilePrefix},
                             n \in 1..(IF Issued < MaxEvents THEN Issued + 1 ELSE Issued)}
    \cup {id \in LegacyIds : hist[id].origin = "legacy"}
    \cup {ForeignPrefix \o LegacyToken}

\* Whether text t holds string p, as it is or JSON-escaped.
Occurs(p, t) ==
    \E i \in 1..Len(t) : i + Len(p) - 1 <= Len(t) /\ SubSeq(t, i, i + Len(p) - 1) = p
Holds(p, t) == p # <<>> /\ (Occurs(p, t) \/ Occurs(Escape(p), t))
\* Whether a response carries the payload p anywhere in its body.
Delivers(resp, p) ==
    \/ Holds(p, resp.encrypted_secret)
    \/ Holds(p, resp.encrypted_data)
    \/ Holds(p, ToJson(resp.metadata))

\* The history of key id after a retrieval answered resp; removed tells
\* whether the request's GETDEL removed a record.
Retrieved(h, id, resp, removed) ==
    IF id \notin KeyIds THEN h
    ELSE [h EXCEPT
            ![id].takes = @ + (IF removed /\ resp.status = 200 THEN 1 ELSE 0),
            ![id].lost = @ \/ (removed /\ resp.status # 200),
            ![id].deliveries =
                @ + (IF h[id].origin # "none" /\ Delivers(resp, h[id].payload)
                     THEN 1 ELSE 0)]

(***************************************************************************)
(* Initial states: an empty backend, or one holding a record written by an *)
(* older release: a bare ciphertext under an identifier of the legacy      *)
(* secret prefix sp- or of the file prefix.                                *)
(***************************************************************************)
LegacyTtl == MIN_EXPIRATION_SECONDS
LegacyRecords ==
    { [id |-> LegacyPrefix \o LegacyToken, value |-> LegacyPlain],
      [id |-> FilePrefix \o LegacyToken, value |-> LegacyPlain] }

EmptyStore == [k \in KeyIds |-> Absent]
EmptyHistory == [k \in KeyIds |-> NoHistory]

InitBackend ==
    /\ now = StartTime
    /\ pending = EmptyBag
    /\ last = NoEvent
    /\ \/ /\ store = EmptyStore
          /\ hist = EmptyHistory
       \/ \E r \in LegacyRecords :
          /\ store = [EmptyStore EXCEPT ![r.id] = Entry(r.value, StartTime + LegacyTtl)]
          /\ hist = [EmptyHistory EXCEPT
                       ![r.id] = Written(NoHistory, "legacy", LegacyPlain, LegacyTtl, JNone,
                                         NoFileMetadata, 0)]

Init ==
    /\ InitBackend
    /\ nevents = 0

(***************************************************************************)
(* Actions.  A create request is one step: its handler issues at most one  *)
(* backend command.  A retrieval is received (the identifier gate), then   *)
(* issues its backend commands one step each, so that the commands of      *)
(* concurrent requests interleave in every order.                          *)
(***************************************************************************)
Answer(op, id, resp, found, calls) ==
    last' = Event(op, id, resp, found, calls)
NoAnswer == last' = NoEvent
\* An event happens: a request is received, or the clock advances.
Received ==
    /\ nevents < MaxEvents
    /\ nevents' = nevents + 1
\* A request is answered without a backend command having completed.
TurnedAway(op, id, resp) ==
    /\ Received
    /\ Answer(op, id, resp, IdStatus(id), 0)
    /\ UNCHANGED <<store, now, pending, hist>>
\* The backend connection of a create request fails: the store function
\* returns Err before any command and the handler answers 500.
Unavailable(op, resp) ==
    /\ Received
    /\ last' = [Event(op, <<>>, resp, "never", 0) EXCEPT !.failed = TRUE]
    /\ UNCHANGED <<store, now, pending, hist>>

\* The connection of a create request breaks after Redis has applied SET EX
\* and before its reply arrives: set_ex returns Err and the handler answers
\* 500 without an identifier, while the record is in the store.
ReplyLost(op, resp) ==
    last' = [Event(op, <<>>, resp, "never", 0) EXCEPT !.failed = TRUE]

\* POST /v1/secrets with a body that deserialized to req: create_secret and
\* store_secret.
CreateSecret(req) ==
    /\ req.ok
    /\ IF ~ValidExpiration(req.expiration)
       THEN TurnedAway("create_secret", <<>>, InvalidExpiration)
       ELSE \/ LET id == SecretPrefix \o generate_short_id(Issued)
                   value == StoreSecretValue(req.encrypted_secret, req.metadata, now)
               IN /\ Received
                  /\ store' = SetEx(store, id, value, req.expiration, now)
                  /\ hist' = [hist EXCEPT
                                ![id] = Written(hist[id], "secret", req.encrypted_secret,
                                                req.expiration, req.metadata,
                                                NoFileMetadata, now)]
                  /\ \/ Answer("create_secret", id,
                               CreateSecretResponse(StoreOk(id)), "never", 1)
                     \/ ReplyLost("create_secret", CreateSecretResponse(StoreErr))
                  /\ UNCHANGED <<now, pending>>
            \/ Unavailable("create_secret", CreateSecretResponse(StoreErr))

\* POST /v1/files with a body that deserialized to req: create_file and
\* store_file.
CreateFile(req) ==
    /\ req.ok
    /\ IF ~ValidExpiration(req.expiration)
       THEN TurnedAway("create_file", <<>>, InvalidExpiration)
       ELSE IF FileTooLarge(req.encrypted_data)
       THEN TurnedAway("create_file", <<>>, FileTooLargeResponse)
       ELSE \/ LET id == FilePrefix \o generate_short_id(Issued)
                   value == StoreFileValue(req.metadata, req.encrypted_data)
               IN /\ Received
                  /\ store' = SetEx(store, id, value, req.expiration, now)
                  /\ hist' = [hist EXCEPT
                                ![id] = Written(hist[id], "file", req.encrypted_data,
                                                req.expiration, JNone,
                                                req.metadata, now)]
                  /\ \/ Answer("create_file", id,
                               CreateFileResponse(StoreOk(id)), "never", 1)
                     \/ ReplyLost("create_file", CreateFileResponse(StoreErr))
                  /\ UNCHANGED <<now, pending>>
            \/ Unavailable("create_file", CreateFileResponse(StoreErr))

\* GET /v1/secrets/:id is received: get_secret up to its first backend call.
GetSecretStart(id, query) ==
    LET mode == IF GetSecretParams(query).peek THEN "peek" ELSE "burn" IN
    IF ~SecretGate(id)
    THEN TurnedAway(mode, id, SecretGateNotFound)
    ELSE /\ Received
         /\ pending' = Add(pending, Request(mode, id))
         /\ NoAnswer
         /\ UNCHANGED <<store, now, hist>>

\* Burn mode: db::get_secret issues GETDEL and the handler answers.
Burn(r) ==
    LET resp == BurnResponse(DbGetSecret(store[r.id])) IN
    /\ r.pc = "burn"
    /\ store' = GetDel(store, r.id)
    /\ hist' = Retrieved(hist, r.id, resp, store[r.id].present)
    /\ pending' = Remove(pending, r)
    /\ Answer("burn", r.id, resp, IdStatus(r.id), 1)
    /\ UNCHANGED <<now, nevents>>

\* Peek mode, first command: db::peek_secret issues GET, and the handler
\* answers if the key is absent.
PeekGet(r) ==
    /\ r.pc = "peek"
    /\ store' = Get(store, r.id)
    /\ UNCHANGED <<now, nevents>>
    /\ IF store[r.id].present
       THEN /\ pending' = Add(Remove(pending, r),
                              [r EXCEPT !.pc = "peek_ttl", !.got = store[r.id].value])
            /\ NoAnswer
            /\ UNCHANGED hist
       ELSE /\ pending' = Remove(pending, r)
            /\ hist' = Retrieved(hist, r.id, PeekResponse(PeekSecretNone), FALSE)
            /\ Answer("peek", r.id, PeekResponse(PeekSecretNone), IdStatus(r.id), 1)

\* Peek mode, second command: db::peek_secret issues TTL and the handler
\* answers.
PeekTtl(r) ==
    LET resp == PeekResponse(DbPeekSecret(r.got, Ttl(store, r.id, now))) IN
    /\ r.pc = "peek_ttl"
    /\ pending' = Remove(pending, r)
    /\ hist' = Retrieved(hist, r.id, resp, FALSE)
    /\ Answer("peek", r.id, resp, "live", 2)
    /\ UNCHANGED <<store, now, nevents>>

\* GET /v1/files/:id is received: get_file up to its backend call.
GetFileStart(id) ==
    IF ~FileGate(id)
    THEN TurnedAway("file", id, FileGateNotFound)
    ELSE /\ Received
         /\ pending' = Add(pending, Request("file", id))
         /\ NoAnswer
         /\ UNCHANGED <<store, now, hist>>

\* db::get_file issues GETDEL and the handler answers.
FileTake(r) ==
    LET resp == FileTakeResponse(DbGetFile(store[r.id])) IN
    /\ r.pc = "file"
    /\ store' = GetDel(store, r.id)
    /\ hist' = Retrieved(hist, r.id, resp, store[r.id].present)
    /\ pending' = Remove(pending, r)
    /\ Answer("file", r.id, resp, IdStatus(r.id), 1)
    /\ UNCHANGED <<now, nevents>>

\* The connection or the command of a retrieval fails: the store function
\* returns Err and the handler answers 500.
BackendFailure(r) ==
    /\ pending' = Remove(pending, r)
    /\ last' = [Event(IF r.pc = "peek_ttl" THEN "peek" ELSE r.pc,
                      r.id,
                      IF r.pc = "burn" THEN BurnResponse(GetSecretErr)
                      ELSE IF r.pc = "file" THEN FileTakeResponse(GetFileErr)
                      ELSE PeekResponse(PeekSecretErr),
                      IF r.pc = "peek_ttl" THEN "live" ELSE IdStatus(r.id),
                      IF r.pc = "peek_ttl" THEN 1 ELSE 0) EXCEPT !.failed = TRUE]
    /\ UNCHANGED <<store, now, hist, nevents>>

\* The clock advances and Redis removes the keys whose deadline has passed.
Tick ==
    /\ Received
    /\ now' = now + TickSeconds
    /\ store' = Expire(store, now')
    /\ hist' = [k \in KeyIds |->
                  [hist[k] EXCEPT !.expired = @ \/ Expired(store[k], now')]]
    /\ NoAnswer
    /\ UNCHANGED pending

\* The requests: each is received, and proceeds command by command.
Requests ==
    \/ \E req \in SecretRequests : CreateSecret(req)
    \/ \E req \in FileRequests : CreateFile(req)
    \/ \E id \in RequestIds, query \in Queries : GetSecretStart(id, query)
    \/ \E r \in InFlight : Burn(r)
    \/ \E r \in InFlight : PeekGet(r)
    \/ \E r \in InFlight : PeekTtl(r)
    \/ \E id \in RequestIds : GetFileStart(id)
    \/ \E r \in InFlight : FileTake(r)
    \/ \E r \in InFlight : BackendFailure(r)

Next ==
    \/ Requests
    \/ Tick

Spec == Init /\ [][Next]_vars

(***************************************************************************)
(* The backend's clock left to run.  Redis keeps its own time whatever the *)
(* requests do, and removes each key at its deadline.  Elapse takes the    *)
(* clock to the earliest deadline of a key in the store, however far that  *)
(* is; it is always taken in the end, for the clock does not stop.         *)
(***************************************************************************)
Deadlines ==
    {store[k].expireAt : k \in {j \in KeyIds : store[j].present
                                                /\ store[j].expireAt # NoExpiry}}
Elapse ==
    /\ Deadlines # {}
    /\ now' = CHOOSE d \in Deadlines : \A e \in Deadlines : d <= e
    /\ store' = Expire(store, now')
    /\ hist' = [k \in KeyIds |->
                  [hist[k] EXCEPT !.expired = @ \/ Expired(store[k], now')]]
    /\ NoAnswer
    /\ UNCHANGED <<pending, nevents>>

NextLive ==
    \/ Requests
    \/ Elapse

\* With the clock free to run as far as any deadline, a behaviour receives
\* MaxLiveEvents requests: the others of the MaxEvents count as received
\* before it starts.
InitLive ==
    /\ InitBackend
    /\ nevents = MaxEvents - MaxLiveEvents

LiveSpec == InitLive /\ [][NextLive]_vars /\ WF_vars(Elapse)

(***************************************************************************)
(* Properties.  They speak of the request the latest step answered (last)  *)
(* and of the histories of the keys.  A request whose backend call failed  *)
(* is answered 500 whatever the record; the properties about NotFound are  *)
(* about the requests the backend answered.                                *)
(***************************************************************************)
PutOrigins == {"secret", "file"}
TakeOps == {"burn", "file"}
RetrievalOps == {"burn", "peek", "file"}
NotFoundResponses == {SecretNotFound, FileNotFound}
\* The latest step answered a request for a key, and the backend had
\* answered that request's commands.
Served(ops) ==
    /\ last.op \in ops
    /\ ~last.failed
    /\ last.calls >= 1
    /\ last.id \in KeyIds

\* C1  At-most-once consumption.  No identifier produced by put is taken
\* successfully twice; a take of such an identifier succeeds if the record
\* was there when its GETDEL ran, and is answered NotFound otherwise, so of
\* concurrent takes exactly the first to reach the backend succeeds.
AtMostOnceConsumption ==
    /\ \A k \in KeyIds :
          hist[k].origin \in PutOrigins => hist[k].takes <= 1 /\ ~hist[k].lost
    /\ (Served(TakeOps) /\ hist[last.id].origin \in PutOrigins) =>
          IF last.found = "live"
          THEN last.resp.status = 200 /\ hist[last.id].takes = 1
          ELSE last.resp \in NotFoundResponses
\* A take of an identifier produced by put succeeded while another take of
\* the same identifier is in flight.
ConcurrentTakesOneSucceeded ==
    /\ Served(TakeOps)
    /\ hist[last.id].origin \in PutOrigins
    /\ last.resp.status = 200
    /\ \E r \in InFlight : r.id = last.id /\ r.pc \in TakeOps

\* C2  Peek is non-destructive.  No step of a peek (its receipt, its GET,
\* its TTL query) changes the backend store or the count of takes; what a
\* take finds afterwards is what it would have found without the peek.
PeekStep ==
    \/ \E id \in RequestIds : GetSecretStart(id, "peek=true")
    \/ \E r \in InFlight : PeekGet(r)
    \/ \E r \in InFlight : PeekTtl(r)
PeekIsNonDestructive ==
    [][PeekStep =>
          /\ store' = store
          /\ \A k \in KeyIds : hist'[k].takes = hist[k].takes
                               /\ hist'[k].lost = hist[k].lost]_vars
\* A peek was answered with the record's attributes and the record is
\* still there.
PeekedAndStillThere ==
    /\ Served({"peek"})
    /\ last.resp.status = 200
    /\ hist[last.id].origin = "secret"
    /\ store[last.id].present

\* The latest step answered a take on the path of the record's kind, of an
\* identifier produced by put whose record was there.
MatchingTake ==
    /\ Served(TakeOps)
    /\ last.found = "live"
    /\ \/ last.op = "burn" /\ hist[last.id].origin = "secret"
       \/ last.op = "file" /\ hist[last.id].origin = "file"
\* The round trip as the specification words it: the take returns the
\* payload, with the metadata supplied to put.
RoundTripWithMetadata ==
    MatchingTake =>
        /\ last.resp.status = 200
        /\ IF last.op = "burn"
           THEN /\ last.resp.encrypted_secret = hist[last.id].payload
                /\ last.resp.metadata = hist[last.id].metadata
           ELSE /\ last.resp.encrypted_data = hist[last.id].payload
                /\ last.resp.file_metadata = hist[last.id].file_metadata
\* C3  Round trip.  A take of an identifier returned by put, on the path
\* of its kind, with the record still there, returns the payload equal to
\* the input.  The take of a file returns the file metadata equal to the
\* input as well; the take of a secret returns the payload and nothing
\* else: the metadata supplied with a secret is returned by peek only.
RoundTrip ==
    MatchingTake =>
        IF last.op = "burn"
        THEN last.resp = EncryptedSecretResponse(hist[last.id].payload)
        ELSE /\ last.resp.status = 200
             /\ last.resp.shape = "StoredFile"
             /\ last.resp.encrypted_data = hist[last.id].payload
             /\ last.resp.file_metadata = hist[last.id].file_metadata
             /\ last.resp.metadata = JNone
\* A secret put with metadata was taken.
SecretWithMetadataTaken ==
    /\ MatchingTake
    /\ last.op = "burn"
    /\ hist[last.id].metadata # JNone
    /\ last.resp.encrypted_secret = hist[last.id].payload

\* A retrieval at position pc names an identifier of the other kind.
WrongKind(pc, id) ==
    \/ pc \in {"burn", "peek", "peek_ttl"} /\ StartsWith(id, FilePrefix)
    \/ pc = "file" /\ StartsWith(id, SecretPrefix)
\* C4  Kind isolation.  A retrieval that names an identifier of the other
\* kind never gets as far as a backend call, and is answered NotFound.
KindIsolation ==
    /\ \A r \in InFlight : ~WrongKind(r.pc, r.id)
    /\ (last.op \in RetrievalOps /\ WrongKind(last.op, last.id)) =>
          last.resp.status = 404 /\ last.calls = 0 /\ ~last.failed

\* C5  The payload is delivered at most once.  Over all the responses
\* given for a key, at most one carries the payload of its record, and no
\* peek response carries it: peek returns the creation time, the remaining
\* TTL and the metadata.
DeliveredAtMostOnce ==
    /\ \A k \in KeyIds : hist[k].deliveries <= 1
    /\ last.op = "peek" =>
          /\ last.resp.encrypted_secret = <<>>
          /\ last.resp.encrypted_data = <<>>
          /\ last.resp.shape \in {"SecretPeekResponse", "ErrorResponse"}
    /\ (last.op = "peek" /\ last.id \in KeyIds /\ hist[last.id].origin # "none") =>
          ~Delivers(last.resp, hist[last.id].payload)
\* A peek was answered with the attributes of a record whose payload a
\* take had delivered meanwhile.
PeekAnsweredAfterDelivery ==
    /\ Served({"peek"})
    /\ last.resp.status = 200
    /\ hist[last.id].origin = "secret"
    /\ hist[last.id].takes = 1
    /\ hist[last.id].deliveries = 1

\* C6  Consumed stays consumed.  Once a take of an identifier has
\* succeeded, no record is ever stored under it again, whatever is put
\* afterwards, and every retrieval that reaches the server after the take
\* is answered NotFound.
ConsumedStaysGone ==
    /\ \A k \in KeyIds : hist[k].takes > 0 => ~store[k].present
    /\ (/\ last.op \in RetrievalOps
        /\ ~last.failed
        /\ last.id \in KeyIds
        /\ hist[last.id].takes > 0
        /\ last.found = "consumed") => last.resp.status = 404
\* An identifier was taken, and a later retrieval of it was answered
\* NotFound by the backend while a record put under another identifier is
\* in the store.
TakenThenAskedAgain ==
    /\ Served(RetrievalOps)
    /\ last.found = "consumed"
    /\ hist[last.id].takes = 1
    /\ last.resp \in NotFoundResponses
    /\ \E k \in KeyIds : /\ k # last.id
                         /\ hist[k].origin \in PutOrigins
                         /\ store[k].present

\* C7  Expiry.  A take or a peek of an identifier whose record has
\* expired is answered NotFound, with the very response given for an
\* identifier of the same kind never issued and for one already consumed.
GoneIsNotFound ==
    (Served(RetrievalOps) /\ last.found \in {"expired", "never", "consumed"}) =>
        last.resp = IF last.op = "file" THEN FileNotFound ELSE SecretNotFound
\* A retrieval of an identifier whose record had expired was answered.
ExpiredAnsweredNotFound ==
    /\ Served(RetrievalOps)
    /\ last.found = "expired"
    /\ hist[last.id].origin \in PutOrigins
    /\ last.resp \in NotFoundResponses

\* C8  Peek/expiry race.  Peek never returns a record together with a
\* negative remaining TTL: when the key is gone by the time of the TTL
\* query, peek is answered NotFound.
PeekNeverNegativeTtl ==
    (last.op = "peek" /\ last.resp.status = 200) => last.resp.ttl_seconds >= 0

\* C9  Legacy fallback.  A raw value stored under an identifier of either
\* kind is returned by a take as the payload, and described by a peek as a
\* record created at time 0 without metadata; neither fails on it.
LegacyFallback ==
    (/\ Served(RetrievalOps)
     /\ hist[last.id].origin = "legacy"
     /\ last.found = "live") =>
        CASE last.op = "burn" -> last.resp = EncryptedSecretResponse(LegacyPlain)
          [] last.op = "file" -> /\ last.resp.status = 200
                                 /\ last.resp.encrypted_data = LegacyPlain
                                 /\ last.resp.created_at = 0
          [] last.op = "peek" -> /\ last.resp.status = 200
                                 /\ last.resp.created_at = 0
                                 /\ last.resp.metadata = JNone

\* C10  Put followed by peek.  A peek of a record created by put-secret,
\* made while the record is there, returns the time the store read from
\* its clock at the write, a remaining TTL no greater than the one given
\* to put, and the metadata given to put.
PutThenPeek ==
    (/\ Served({"peek"})
     /\ hist[last.id].origin = "secret"
     /\ last.found = "live") =>
        /\ last.resp.status = 200
        /\ last.resp.shape = "SecretPeekResponse"
        /\ last.resp.created_at = hist[last.id].at
        /\ last.resp.ttl_seconds <= hist[last.id].ttl
        /\ last.resp.metadata = hist[last.id].metadata
\* A secret put with metadata and a creation time of the caller's was
\* peeked some time after the write.
PeekedAfterAWhile ==
    /\ Served({"peek"})
    /\ last.resp.status = 200
    /\ hist[last.id].origin = "secret"
    /\ last.resp.metadata = ExampleMetadata
    /\ last.resp.created_at = hist[last.id].at
    /\ last.resp.created_at < now
    /\ last.resp.ttl_seconds >= 0
    /\ last.resp.ttl_seconds < hist[last.id].ttl

\* The range of accepted expirations, and what a request turned away with
\* resp before any backend call leaves behind: the store as it was, no
\* identifier issued.
InRange(expiration) ==
    expiration >= MIN_EXPIRATION_SECONDS /\ expiration <= MAX_EXPIRATION_SECONDS
RejectedUntouched(resp) ==
    /\ last'.resp = resp
    /\ last'.resp.status = 400
    /\ last'.calls = 0
    /\ last'.id = <<>>
    /\ store' = store
    /\ hist' = hist
\* C11  TTL validation.  A create-secret or create-file request whose
\* expiration is below the minimum or above the maximum is answered 400
\* "Invalid expiration time" before any backend call, the store is left as
\* it was and no identifier is issued; a request whose expiration is in
\* the range, its ends included, is never answered so.
TtlValidation ==
    [][/\ \A req \in SecretRequests : CreateSecret(req) =>
             IF InRange(req.expiration)
             THEN last'.resp.status # 400
             ELSE RejectedUntouched(InvalidExpiration)
       /\ \A req \in FileRequests : CreateFile(req) =>
             IF InRange(req.expiration)
             THEN last'.resp # InvalidExpiration
             ELSE RejectedUntouched(InvalidExpiration)]_vars
\* A create-file request was turned away for its expiration while records
\* put with the least and the greatest expiration are in the store.
InvalidTtlRejected ==
    /\ last.op = "create_file"
    /\ last.resp = InvalidExpiration
    /\ \E k \in KeyIds : store[k].present /\ hist[k].ttl = MIN_EXPIRATION_SECONDS
                         /\ hist[k].origin \in PutOrigins
    /\ \E k \in KeyIds : store[k].present /\ hist[k].ttl = MAX_EXPIRATION_SECONDS

\* The longest base64 text create_file accepts.
SizeLimit == (max_file_size_bytes * 4) \div 3 + 4
\* C12  Size validation.  A create-file request with an expiration in the
\* range whose base64 text is longer than max_file_size_bytes * 4 / 3 + 4
\* is answered 400 "File too large" before any backend call and the store
\* is left as it was; a text of that length or shorter is passed on to
\* the store, which writes it unless the backend fails.
SizeValidation ==
    [][\A req \in FileRequests :
          (CreateFile(req) /\ InRange(req.expiration)) =>
             IF Len(req.encrypted_data) > SizeLimit
             THEN RejectedUntouched(FileTooLargeResponse)
             ELSE \/ /\ last'.resp.status = 200
                     /\ last'.calls = 1
                     /\ store'[last'.id].present
                     /\ hist'[last'.id].payload = req.encrypted_data
                  \/ /\ last'.failed
                     /\ last'.resp = InternalServerError]_vars
\* A file of more than the limit was turned away while a file of exactly
\* the limit, accepted before, is in the store.
OversizedFileRejected ==
    /\ last.op = "create_file"
    /\ last.resp = FileTooLargeResponse
    /\ \E k \in KeyIds : /\ hist[k].origin = "file"
                         /\ Len(hist[k].payload) = SizeLimit
                         /\ store[k].present

\* C13  Burn is the default.  A retrieve-secret request that passes the
\* gate proceeds as a peek only if its query is peek=true, and as a burn
\* with peek absent or false; once the backend has answered a burn no
\* record is left under the identifier, and a peek leaves the record as it
\* found it.
BurnIsDefault ==
    [][/\ \A id \in RequestIds, query \in Queries :
             (GetSecretStart(id, query) /\ SecretGate(id)) =>
                pending' = Add(pending,
                               Request(IF query = "peek=true" THEN "peek" ELSE "burn", id))
       /\ \A r \in InFlight :
             Burn(r) => /\ r.pc = "burn"
                        /\ last'.op = "burn"
                        /\ ~store'[r.id].present
       /\ \A r \in InFlight :
             (PeekGet(r) \/ PeekTtl(r)) => /\ r.pc \in {"peek", "peek_ttl"}
                                           /\ store'[r.id] = store[r.id]]_vars
\* A burn returned the secret put under an identifier and the record is
\* gone.
BurnedAndGone ==
    /\ Served({"burn"})
    /\ hist[last.id].origin = "secret"
    /\ last.resp = EncryptedSecretResponse(hist[last.id].payload)
    /\ ~store[last.id].present

\* C14  Legacy prefix.  A retrieve-secret request, burn or peek, naming an
\* identifier of the bare prefix sp- passes the gate and is looked up in
\* the backend: it is never answered by the gate, and if a record is
\* stored under the identifier the request returns it.
LegacyPrefixAccepted ==
    /\ \A id \in LegacyIds : StartsWith(id, LegacyPrefix) => SecretGate(id)
    /\ (/\ last.op \in {"burn", "peek"}
        /\ StartsWith(last.id, LegacyPrefix)
        /\ ~last.failed) =>
          /\ last.calls >= 1
          /\ last.resp # SecretGateNotFound
          /\ last.found = "live" =>
                /\ last.resp.status = 200
                /\ last.op = "burn" => last.resp.encrypted_secret = hist[last.id].payload
\* A request naming an sp- identifier was answered with the record.
LegacyIdServed ==
    /\ Served({"burn", "peek"})
    /\ StartsWith(last.id, LegacyPrefix)
    /\ last.resp.status = 200

\* C15  The remaining TTL only counts down.  No step (put, take, peek,
\* clock) moves the deadline of a record that stays in the store, so its
\* remaining TTL never grows from one state to the next, and it never
\* exceeds the expiration given when the record was written.
TtlOnlyCountsDown ==
    [][\A k \in KeyIds :
          /\ (store[k].present /\ store'[k].present) =>
                /\ store'[k].expireAt = store[k].expireAt
                /\ Ttl(store', k, now') <= Ttl(store, k, now)
          /\ store'[k].present =>
                /\ Ttl(store', k, now') <= hist'[k].ttl
                /\ Ttl(store', k, now') > 0]_vars
\* A peek made one advance of the clock after the write reported the
\* expiration given to put less the time elapsed, and the record is still
\* in the store with that remaining TTL.
PeekSawCountdown ==
    /\ Served({"peek"})
    /\ last.resp.status = 200
    /\ hist[last.id].origin = "secret"
    /\ now = hist[last.id].at + TickSeconds
    /\ last.resp.ttl_seconds = hist[last.id].ttl - TickSeconds
    /\ store[last.id].present
    /\ Ttl(store, last.id, now) = last.resp.ttl_seconds

\* C16  No update.  A put that succeeds returns an identifier of the
\* prefix of its kind under which nothing was ever stored or issued,
\* completes exactly one backend command, the write, and changes no other
\* key; the value of a record is the same in every state from its write
\* to its removal.
NoUpdate ==
    [][/\ \A req \in SecretRequests :
             (CreateSecret(req) /\ last'.resp.status = 200) =>
                /\ StartsWith(last'.id, SecretPrefix)
                /\ last'.resp = SecretResponse(last'.id)
       /\ \A req \in FileRequests :
             (CreateFile(req) /\ last'.resp.status = 200) =>
                /\ StartsWith(last'.id, FilePrefix)
                /\ last'.resp = FileResponse(last'.id)
       /\ (last'.op \in {"create_secret", "create_file"} /\ last'.resp.status = 200) =>
             /\ last'.id \in IssuableIds
             /\ hist[last'.id] = NoHistory
             /\ ~store[last'.id].present
             /\ store'[last'.id].present
             /\ last'.calls = 1
             /\ \A k \in KeyIds \ {last'.id} : store'[k] = store[k]
       /\ \A k \in KeyIds :
             (store[k].present /\ store'[k].present) =>
                store'[k].value = store[k].value]_vars
\* A put returned a new identifier while the record of an earlier put is
\* in the store under another.
SecondPutNewIdentifier ==
    /\ last.op \in {"create_secret", "create_file"}
    /\ last.resp.status = 200
    /\ store[last.id].present
    /\ \E k \in KeyIds \ {last.id} : hist[k].origin \in PutOrigins /\ store[k].present

\* C17  Every record is destroyed in the end.  With the backend's clock
\* running, the store is time and again without any record, so that every
\* record in it is eventually gone from it, taken or expired, whether or
\* not anyone learnt its identifier or asks for it; and no record written
\* by put is in the store once the expiration given to put has elapsed
\* since its write.
EveryRecordDestroyed ==
    /\ [](\A k \in KeyIds :
             (store[k].present /\ hist[k].origin \in PutOrigins) =>
                now < hist[k].at + hist[k].ttl)
    /\ []<>(\A k \in KeyIds : ~store[k].present)
\* A record written by put that nobody took has expired.
UntakenRecordExpired ==
    \E k \in KeyIds : /\ hist[k].origin \in PutOrigins
                      /\ hist[k].takes = 0
                      /\ hist[k].deliveries = 0
                      /\ hist[k].expired
                      /\ ~store[k].present
                      /\ now >= hist[k].at + hist[k].ttl

\* C18  Backend failure handling.  A request whose backend connection or
\* command fails is answered 500 with an error body, never NotFound and
\* never a success with an identifier or a payload; the request is over
\* with that answer (no second attempt), and the step removes and changes
\* no record (no compensating delete): at most the record of a write whose
\* reply was lost is new in the store.
BackendFailureIs500 ==
    [][last'.failed =>
          /\ last'.resp.status = 500
          /\ last'.resp.shape = "ErrorResponse"
          /\ last'.resp.id = <<>>
          /\ last'.resp.encrypted_secret = <<>>
          /\ last'.resp.encrypted_data = <<>>
          /\ last'.resp.metadata = JNone
          /\ IF last'.op \in RetrievalOps
             THEN /\ \E r \in InFlight : r.id = last'.id /\ pending' = Remove(pending, r)
                  /\ store' = store
             ELSE /\ pending' = pending
                  /\ \A k \in KeyIds : store[k].present => store'[k] = store[k]
                  /\ Cardinality({k \in KeyIds : store'[k].present /\ ~store[k].present}) <= 1
          /\ \A k \in KeyIds : /\ hist'[k].takes = hist[k].takes
                               /\ hist'[k].deliveries = hist[k].deliveries
                               /\ hist'[k].lost = hist[k].lost]_vars
\* A burn of a secret in the store failed at the backend: it was answered
\* 500 and the record is still there.
FailedBurnLeftRecord ==
    /\ last.failed
    /\ last.op = "burn"
    /\ last.resp.status = 500
    /\ last.id \in KeyIds
    /\ hist[last.id].origin = "secret"
    /\ store[last.id].present

\* C19  A file record is out of reach of the secret path.  No request on
\* the secret-retrieval path, burn or peek, is answered with the contents
\* of a record written by put-file, and none removes such a record.
FileRecordOutOfSecretPath ==
    (/\ last.op \in {"burn", "peek"}
     /\ last.id \in KeyIds
     /\ hist[last.id].origin = "file") =>
        /\ ~Delivers(last.resp, hist[last.id].payload)
        /\ last.resp.status # 200
        /\ last.found = "live" => store[last.id].present

\* C20  A take never destroys a record without delivering it.  A take
\* that found the record in the store and is answered with an error or
\* NotFound has left the record there; no record is ever removed by a
\* call that did not return it.
TakeDeliversWhatItDestroys ==
    /\ \A k \in KeyIds : ~hist[k].lost
    /\ (/\ last.op \in TakeOps
        /\ last.id \in KeyIds
        /\ last.found = "live"
        /\ last.resp.status # 200) => store[last.id].present

\* The records under the keys ks are the same after the step as before it:
\* presence, value, deadline and remaining TTL.
Untouched(ks) ==
    \A k \in ks : /\ store'[k] = store[k]
                  /\ Ttl(store', k, now') = Ttl(store, k, now)
\* The keys that hold a record after the step and held none before it.
Added == {k \in KeyIds : store'[k].present /\ ~store[k].present}
\* The frame of a put: it removes and changes no record, adds at most one,
\* exactly the one whose identifier it returns when it is answered 200, and
\* none when the request is rejected.
PutFrame ==
    /\ Untouched(KeyIds \ Added)
    /\ Cardinality(Added) <= 1
    /\ last'.resp.status = 200 => Added = {last'.id}
    /\ last'.resp.status = 400 => Added = {}

\* C21  Frame of the operations.  A take of identifier X adds no record and
\* removes at most the record under X: every record under another
\* identifier has the same value and the same remaining TTL after the call
\* as before it.  A put answered 200 adds exactly one record, the one under
\* the identifier it returns, no put adds more than one, and a put leaves
\* every record that was in the store as it was.  A peek, the receipt of a
\* request and a failed backend call leave every record as it was.
FrameEffect ==
    [][/\ \A r \in InFlight :
             (Burn(r) \/ FileTake(r)) =>
                /\ Untouched(KeyIds \ {r.id})
                /\ Added = {}
                /\ r.id \in KeyIds => ~store'[r.id].present
       /\ \A r \in InFlight :
             (PeekGet(r) \/ PeekTtl(r) \/ BackendFailure(r)) => Untouched(KeyIds)
       /\ \A req \in SecretRequests : CreateSecret(req) => PutFrame
       /\ \A req \in FileRequests : CreateFile(req) => PutFrame
       /\ (\/ \E id \in RequestIds, query \in Queries : GetSecretStart(id, query)
           \/ \E id \in RequestIds : GetFileStart(id)) => Untouched(KeyIds)]_vars
\* A take was answered with the record of its identifier, which is gone,
\* while the record of another put is in the store with the value it was
\* written with and the remaining TTL of its write.
TakenBesideAnotherRecord ==
    /\ Served(TakeOps)
    /\ last.resp.status = 200
    /\ last.id \in KeyIds
    /\ ~store[last.id].present
    /\ \E k \in KeyIds \ {last.id} :
          /\ hist[k].origin \in PutOrigins
          /\ store[k].present
          /\ hist[k].takes = 0
          /\ Holds(hist[k].payload, store[k].value)
          /\ Ttl(store, k, now) = hist[k].ttl - (now - hist[k].at)

====
